---- MODULE Spec2Model ----
\* A model of foundation::SearchPaths (appleseed), the layered search-path
\* resolver: its mutators, and its exist / qualify queries over a filesystem.
\*
\* A C string is a sequence of one-character strings: "/e" is <<"/", "e">>.
\* A null char* is the distinguished value NullStr.
EXTENDS Integers, Sequences, FiniteSets, TLC

\* ---------------------------------------------------------------- bounds

\* Largest length m_all_paths may reach (push_back is not offered beyond it).
MaxAllPaths == 3

\* Largest number of files present on disk.
MaxFiles == 2

\* ---------------------------------------------------------------- strings

NullStr == <<"NULL">>

\* POSIX build: boost::filesystem::path::preferred_separator.
preferred_separator == "/"

is_separator(c) == c = "/"

\* SearchPaths::environment_path_separator(), non-Windows branch.
environment_path_separator == ":"

\* boost::filesystem::path::is_absolute(): the path has a root directory.
is_absolute(p) == Len(p) > 0 /\ is_separator(p[1])

is_relative(p) == ~is_absolute(p)

\* boost::filesystem::path::make_preferred(): every directory separator
\* becomes the preferred separator.
make_preferred(p) ==
    [k \in 1..Len(p) |-> IF is_separator(p[k]) THEN preferred_separator ELSE p[k]]

\* boost::filesystem::path operator/ (append): nothing for an empty right
\* side; a separator is inserted unless the left side is empty or already
\* ends with one, or the right side starts with one.
path_append(lhs, rhs) ==
    IF Len(rhs) = 0 THEN lhs
    ELSE IF ~is_separator(rhs[1]) /\ Len(lhs) > 0 /\ ~is_separator(lhs[Len(lhs)])
         THEN lhs \o <<preferred_separator>> \o rhs
         ELSE lhs \o rhs

\* foundation::split(): the separator-delimited tokens, empty ones included.
RECURSIVE split_from(_, _, _, _)
split_from(str, sep, k, token) ==
    IF k > Len(str) THEN <<token>>
    ELSE IF str[k] = sep
         THEN <<token>> \o split_from(str, sep, k + 1, <<>>)
         ELSE split_from(str, sep, k + 1, Append(token, str[k]))

split(str, sep) == split_from(str, sep, 1, <<>>)

\* ---------------------------------------------------------------- inputs

\* Paths handed to push_back.
PathInputs == { <<"a">>, <<"/", "b">> }

\* Paths handed to set_root_path.
RootInputs == { <<>>, <<"/", "r">> }

\* Values of the environment variable read by the constructor (NullStr: unset).
EnvInputs ==
    { NullStr,
      <<"a", ":", ":", "/", "e">>,
      <<"/", "e", ":", "a", ":", "/", "b">> }

\* Strings handed to split_and_push_back.
SplitInputs == { <<"a", ":", "/", "b">>, <<":", "a">> }

\* File paths handed to exist and do_qualify.
Targets == { <<"f">>, <<"/", "f">> }

RelTargets == { t \in Targets : is_relative(t) }

AbsTargets == { t \in Targets : is_absolute(t) }

SearchDirs ==
    PathInputs
    \cup UNION { { tok[k] : k \in 1..Len(tok) } :
                 tok \in { split(v, environment_path_separator) :
                           v \in (EnvInputs \ {NullStr}) \cup SplitInputs } }

\* Every location a query can probe, given the inputs above.
Locations ==
    LET roots    == RootInputs \ {<<>>}
        anchored == SearchDirs
                    \cup { path_append(r, d) : r \in roots,
                                               d \in { x \in SearchDirs : is_relative(x) } }
                    \cup roots
    IN  { path_append(d, t) : d \in anchored, t \in RelTargets } \cup Targets

\* ---------------------------------------------------------------- state

VARIABLES
    impl,   \* SearchPaths::Impl: the four fields of the resolver
    fs,     \* the files present on disk (the set of paths that exist)
    last,   \* the call that produced this state, with what it returned
    other,  \* a second SearchPaths object (see the section on copies)
    proc,   \* the process: whether the build defines NDEBUG, whether it aborted
    threads, \* the threads running queries (see the section on queries in steps)
    shader  \* a DiagnosticSurfaceShader (see the section on the shader)

vars == <<impl, fs, last, other, proc, threads, shader>>

\* boost::filesystem::exists().
bf_exists(p) == p \in fs

\* What a call returned. found: the bool returned by exist, or whether
\* do_qualify returned from a hit; qualified, search_path: the strings
\* do_qualify stored through its out-parameters; str: a returned char*;
\* count: a returned size_t.
NoRet ==
    [found |-> FALSE, qualified |-> NullStr, search_path |-> NullStr,
     str |-> NullStr, count |-> 0]

\* A call record: the operation, its string argument, its index argument,
\* the resolver it was called on (pre) and what it returned.
Call(op, arg, idx, pre, ret) ==
    [op |-> op, arg |-> arg, idx |-> idx, pre |-> pre, ret |-> ret]

\* ---------------------------------------------------------------- construction

\* SearchPaths::SearchPaths(): a value-initialized Impl.
SearchPathsDefault ==
    [ m_root_path         |-> <<>>,
      m_explicit_paths    |-> <<>>,
      m_environment_paths |-> <<>>,
      m_all_paths         |-> <<>> ]

\* The constructor's loop without the test that skips relative paths.
RECURSIVE env_loop_keeps_relative(_, _, _)
env_loop_keeps_relative(s, paths, k) ==
    IF k > Len(paths) THEN s
    ELSE IF paths[k] # <<>>
         THEN env_loop_keeps_relative(
                  [s EXCEPT !.m_environment_paths = Append(@, paths[k]),
                            !.m_all_paths = Append(@, paths[k])],
                  paths, k + 1)
         ELSE env_loop_keeps_relative(s, paths, k + 1)

\* The constructor's loop over the split tokens, from token k on.
RECURSIVE env_loop(_, _, _)
env_loop(s, paths, k) ==
    IF k > Len(paths) THEN s
    ELSE IF ~is_absolute(paths[k]) THEN env_loop(s, paths, k + 1)
    ELSE IF paths[k] # <<>>
         THEN env_loop([s EXCEPT !.m_environment_paths = Append(@, paths[k]),
                                 !.m_all_paths = Append(@, paths[k])],
                       paths, k + 1)
         ELSE env_loop(s, paths, k + 1)

\* SearchPaths::SearchPaths(envvar, separator); value is getenv(envvar).
SearchPathsEnv(value, separator) ==
    IF value # NullStr
    THEN env_loop(SearchPathsDefault, split(value, separator), 1)
    ELSE SearchPathsDefault

\* ---------------------------------------------------------------- mutators

\* set_root_path() keeping a root path that is already set.
set_root_path_once(s, path) ==
    IF s.m_root_path = <<>>
    THEN [s EXCEPT !.m_root_path = make_preferred(path)]
    ELSE s

set_root_path(s, path) == [s EXCEPT !.m_root_path = make_preferred(path)]

has_root_path(s) == s.m_root_path # <<>>

\* clear() forgetting m_environment_paths.clear().
clear_keeps_environment(s) ==
    [s EXCEPT !.m_root_path = <<>>,
              !.m_explicit_paths = <<>>,
              !.m_all_paths = <<>>]

clear(s) ==
    [s EXCEPT !.m_root_path = <<>>,
              !.m_explicit_paths = <<>>,
              !.m_environment_paths = <<>>,
              !.m_all_paths = <<>>]

\* reset() forgetting to restore m_all_paths.
reset_explicit_only(s) == [s EXCEPT !.m_explicit_paths = <<>>]

\* reset() doing the work of clear().
reset_as_clear(s) == clear(s)

reset(s) ==
    [s EXCEPT !.m_explicit_paths = <<>>,
              !.m_all_paths = s.m_environment_paths]

empty(s) == s.m_explicit_paths = <<>>

size(s) == Len(s.m_explicit_paths)

\* The condition asserted by operator[] and remove: assert(i < size()).
in_range_inclusive(s, i) == i <= size(s)

in_range(s, i) == i < size(s)

\* operator[] reading m_all_paths.
subscript_all(s, i) == s.m_all_paths[i + 1]

\* SearchPaths::operator[](i) past its assertion: m_explicit_paths[i].
subscript(s, i) == s.m_explicit_paths[i + 1]

\* push_back() refusing a path that is already registered.
push_back_unique(s, path) ==
    IF \E k \in 1..Len(s.m_explicit_paths) : s.m_explicit_paths[k] = path
    THEN s
    ELSE [s EXCEPT !.m_explicit_paths = Append(@, path),
                   !.m_all_paths = Append(@, path)]

push_back(s, path) ==
    [s EXCEPT !.m_explicit_paths = Append(@, path),
              !.m_all_paths = Append(@, path)]

\* The loop of split_and_push_back skipping empty tokens.
RECURSIVE push_back_loop_skips_empty(_, _, _)
push_back_loop_skips_empty(s, path_list, k) ==
    IF k > Len(path_list) THEN s
    ELSE IF path_list[k] = <<>>
         THEN push_back_loop_skips_empty(s, path_list, k + 1)
         ELSE push_back_loop_skips_empty(push_back(s, path_list[k]), path_list, k + 1)

RECURSIVE push_back_loop(_, _, _)
push_back_loop(s, path_list, k) ==
    IF k > Len(path_list) THEN s
    ELSE push_back_loop(push_back(s, path_list[k]), path_list, k + 1)

split_and_push_back(s, paths, separator) ==
    push_back_loop(s, split(paths, separator), 1)

\* vector::erase(begin() + i) on a sequence indexed from 1.
erase(seq, i) == SubSeq(seq, 1, i) \o SubSeq(seq, i + 2, Len(seq))

\* SearchPaths::remove(i), 0 <= i < size().
remove(s, i) == [s EXCEPT !.m_explicit_paths = erase(@, i)]

\* ---------------------------------------------------------------- queries

\* The directory a walk probes for a stored search path: the search path
\* made absolute under the root path if there is a root path and the search
\* path is relative.
anchor(s, search_path) ==
    IF has_root_path(s) /\ is_relative(search_path)
    THEN path_append(s.m_root_path, search_path)
    ELSE search_path

\* The reverse loop of exist over m_all_paths, from entry i down to entry 1.
RECURSIVE exist_loop(_, _, _)
exist_loop(s, fp, i) ==
    IF i = 0 THEN FALSE
    ELSE IF bf_exists(path_append(anchor(s, s.m_all_paths[i]), fp)) THEN TRUE
    ELSE exist_loop(s, fp, i - 1)

\* exist() without the final plain bf::exists(fp) for a relative filepath.
exist_without_fallback(s, filepath) ==
    IF ~is_absolute(filepath)
    THEN IF exist_loop(s, filepath, Len(s.m_all_paths)) THEN TRUE
         ELSE has_root_path(s) /\ bf_exists(path_append(s.m_root_path, filepath))
    ELSE bf_exists(filepath)

\* exist() without the is_absolute() test: every filepath is walked.
exist_always_walks(s, filepath) ==
    IF exist_loop(s, filepath, Len(s.m_all_paths)) THEN TRUE
    ELSE IF has_root_path(s) /\ bf_exists(path_append(s.m_root_path, filepath))
         THEN TRUE
         ELSE bf_exists(filepath)

\* exist() without the root-path lookup that follows the loop.
exist_skips_root(s, filepath) ==
    IF ~is_absolute(filepath)
    THEN IF exist_loop(s, filepath, Len(s.m_all_paths)) THEN TRUE
         ELSE bf_exists(filepath)
    ELSE bf_exists(filepath)

\* SearchPaths::exist(filepath).
exist(s, filepath) ==
    IF ~is_absolute(filepath)
    THEN IF exist_loop(s, filepath, Len(s.m_all_paths)) THEN TRUE
         ELSE IF has_root_path(s) /\ bf_exists(path_append(s.m_root_path, filepath))
              THEN TRUE
              ELSE bf_exists(filepath)
    ELSE bf_exists(filepath)

\* What do_qualify hands back: *qualified_filepath_cstr and *search_path_cstr.
Qualified(qualified_fp, search_path) ==
    [NoRet EXCEPT !.found = TRUE,
                  !.qualified = qualified_fp,
                  !.search_path = search_path]

\* The loop of do_qualify iterating forward (begin() to end()).
RECURSIVE qualify_loop_forward(_, _, _)
qualify_loop_forward(s, fp, i) ==
    IF i = 0 THEN NoRet
    ELSE LET j            == Len(s.m_all_paths) - i + 1
             qualified_fp == path_append(anchor(s, s.m_all_paths[j]), fp)
         IN  IF bf_exists(qualified_fp)
             THEN Qualified(make_preferred(qualified_fp), s.m_all_paths[j])
             ELSE qualify_loop_forward(s, fp, i - 1)

\* The loop of do_qualify handing back the search path as probed (made
\* absolute under the root path) instead of the stored string *i.
RECURSIVE qualify_loop_anchored(_, _, _)
qualify_loop_anchored(s, fp, i) ==
    IF i = 0 THEN NoRet
    ELSE LET qualified_fp == path_append(anchor(s, s.m_all_paths[i]), fp)
         IN  IF bf_exists(qualified_fp)
             THEN Qualified(make_preferred(qualified_fp), anchor(s, s.m_all_paths[i]))
             ELSE qualify_loop_anchored(s, fp, i - 1)

\* The reverse loop of do_qualify, from entry i down to entry 1; NoRet if the
\* loop ends without returning.
RECURSIVE qualify_loop(_, _, _)
qualify_loop(s, fp, i) ==
    IF i = 0 THEN NoRet
    ELSE LET qualified_fp == path_append(anchor(s, s.m_all_paths[i]), fp)
         IN  IF bf_exists(qualified_fp)
             THEN Qualified(make_preferred(qualified_fp), s.m_all_paths[i])
             ELSE qualify_loop(s, fp, i - 1)

\* do_qualify() without the bf::exists test on the root-path candidate.
do_qualify_unchecked_root(s, filepath) ==
    LET unqualified == [NoRet EXCEPT !.qualified = filepath]
    IN  IF ~is_absolute(filepath)
        THEN LET hit == qualify_loop(s, filepath, Len(s.m_all_paths))
                 qualified_fp == path_append(s.m_root_path, filepath)
             IN  IF hit.found THEN hit
                 ELSE IF has_root_path(s)
                      THEN Qualified(make_preferred(qualified_fp), NullStr)
                      ELSE unqualified
        ELSE unqualified

\* SearchPaths::do_qualify(filepath, &qualified_filepath, &search_path).
do_qualify(s, filepath) ==
    LET unqualified == [NoRet EXCEPT !.qualified = filepath]
    IN  IF ~is_absolute(filepath)
        THEN LET hit == qualify_loop(s, filepath, Len(s.m_all_paths))
                 qualified_fp == path_append(s.m_root_path, filepath)
             IN  IF hit.found THEN hit
                 ELSE IF has_root_path(s) /\ bf_exists(qualified_fp)
                      THEN Qualified(make_preferred(qualified_fp), NullStr)
                      ELSE unqualified
        ELSE unqualified

\* std::reverse(begin, end).
reverse(seq) == [k \in 1..Len(seq) |-> seq[Len(seq) - k + 1]]

\* The loop of do_to_string over paths, from element i on; paths_str is the
\* string built so far.
RECURSIVE to_string_loop(_, _, _, _, _)
to_string_loop(s, paths, separator, i, paths_str) ==
    IF i > Len(paths) THEN paths_str
    ELSE IF is_relative(paths[i]) /\ ~has_root_path(s)
         THEN to_string_loop(s, paths, separator, i + 1, paths_str)
         ELSE LET p == IF is_relative(paths[i])
                       THEN path_append(s.m_root_path, paths[i])
                       ELSE paths[i]
                  sep == IF paths_str # <<>> THEN <<separator>> ELSE <<>>
              IN  to_string_loop(s, paths, separator, i + 1, paths_str \o sep \o p)

\* do_to_string() reversing the search paths only, the root path staying first.
do_to_string_root_first(s, separator, reversed) ==
    LET root  == IF has_root_path(s) THEN <<s.m_root_path>> ELSE <<>>
        paths == root \o (IF reversed THEN reverse(s.m_all_paths) ELSE s.m_all_paths)
    IN  to_string_loop(s, paths, separator, 1, <<>>)

\* SearchPaths::do_to_string(separator, reversed).
do_to_string(s, separator, reversed) ==
    LET root   == IF has_root_path(s) THEN <<s.m_root_path>> ELSE <<>>
        copied == root \o s.m_all_paths
        paths  == IF reversed THEN reverse(copied) ELSE copied
    IN  to_string_loop(s, paths, separator, 1, <<>>)

\* ---------------------------------------------------------------- behaviour

\* The filesystems considered: at most MaxFiles of the probed locations exist.
Filesystems == { S \in SUBSET Locations : Cardinality(S) <= MaxFiles }

\* No second SearchPaths object has been constructed.
NoOther == [live |-> FALSE, same |-> FALSE, obj |-> SearchPathsDefault]

\* The threads that call queries on the first object.
Threads == { "t1", "t2" }

\* A thread that is not inside a query. pc is its position in the query, op
\* the query, arg and idx its arguments, i its reverse iterator into
\* m_all_paths (the index of the entry it designates, 0 at rend()) and ret
\* what the query is about to return.
IdleThread ==
    [pc |-> "idle", op |-> "", arg |-> NullStr, idx |-> 0, i |-> 0, ret |-> NoRet]

NoThreads == [t \in Threads |-> IdleThread]

\* No DiagnosticSurfaceShader has been constructed. A parameter of m_params
\* and a member are sets: empty while the parameter is absent or the member
\* has not been assigned, else holding the one value. result is what the last
\* evaluate wrote to shading_result, with the case of the switch it took.
NoShader ==
    [constructed       |-> FALSE,
     m_params          |-> [mode |-> {}, max_distance |-> {}, samples |-> {}],
     m_shading_mode    |-> {},
     m_ao_max_distance |-> {},
     m_ao_samples      |-> {},
     result            |-> [branch |-> "none", color |-> "none"]]

\* The object is constructed by either constructor.
Constructed ==
    \/ /\ impl = SearchPathsDefault
       /\ last = Call("SearchPaths", NullStr, 0, SearchPathsDefault, NoRet)
    \/ \E value \in EnvInputs :
         /\ impl = SearchPathsEnv(value, environment_path_separator)
         /\ last = Call("SearchPaths", value, 0, SearchPathsDefault, NoRet)

Init ==
    /\ fs \in Filesystems
    /\ Constructed
    /\ other = NoOther
    /\ proc = [ndebug |-> FALSE, aborted |-> FALSE]
    /\ threads = NoThreads
    /\ shader = NoShader

SetRootPath ==
    \E path \in RootInputs :
        /\ impl' = set_root_path(impl, path)
        /\ last' = Call("set_root_path", path, 0, impl, NoRet)
        /\ UNCHANGED <<fs, other, proc, threads, shader>>

Clear ==
    /\ impl' = clear(impl)
    /\ last' = Call("clear", NullStr, 0, impl, NoRet)
    /\ UNCHANGED <<fs, other, proc, threads, shader>>

Reset ==
    /\ impl' = reset(impl)
    /\ last' = Call("reset", NullStr, 0, impl, NoRet)
    /\ UNCHANGED <<fs, other, proc, threads, shader>>

PushBack ==
    \E path \in PathInputs :
        /\ Len(impl.m_all_paths) < MaxAllPaths
        /\ impl' = push_back(impl, path)
        /\ last' = Call("push_back", path, 0, impl, NoRet)
        /\ UNCHANGED <<fs, other, proc, threads, shader>>

SplitAndPushBack ==
    \E paths \in SplitInputs :
        /\ Len(impl.m_all_paths) + Len(split(paths, environment_path_separator))
              <= MaxAllPaths
        /\ impl' = split_and_push_back(impl, paths, environment_path_separator)
        /\ last' = Call("split_and_push_back", paths, 0, impl, NoRet)
        /\ UNCHANGED <<fs, other, proc, threads, shader>>

\* remove(i) under its precondition i < size(); last.arg is the path removed.
Remove ==
    \E i \in 0..(size(impl) - 1) :
        /\ impl' = remove(impl, i)
        /\ last' = Call("remove", impl.m_explicit_paths[i + 1], i, impl, NoRet)
        /\ UNCHANGED <<fs, other, proc, threads, shader>>

Exist ==
    \E filepath \in Targets :
        /\ last' = Call("exist", filepath, 0, impl,
                        [NoRet EXCEPT !.found = exist(impl, filepath)])
        /\ UNCHANGED <<impl, fs, other, proc, threads, shader>>

Qualify ==
    \E filepath \in Targets :
        /\ last' = Call("qualify", filepath, 0, impl, do_qualify(impl, filepath))
        /\ UNCHANGED <<impl, fs, other, proc, threads, shader>>

\* set_root_path with a relative root path.
RelativeRootInputs == { <<"r">> }

SetRelativeRootPath ==
    \E path \in RelativeRootInputs :
        /\ impl' = set_root_path(impl, path)
        /\ last' = Call("set_root_path", path, 0, impl, NoRet)
        /\ UNCHANGED <<fs, other, proc, threads, shader>>

\* push_back with the empty string.
PushBackEmpty ==
    /\ Len(impl.m_all_paths) < MaxAllPaths
    /\ impl' = push_back(impl, <<>>)
    /\ last' = Call("push_back", <<>>, 0, impl, NoRet)
    /\ UNCHANGED <<fs, other, proc, threads, shader>>

Empty ==
    /\ last' = Call("empty", NullStr, 0, impl, [NoRet EXCEPT !.found = empty(impl)])
    /\ UNCHANGED <<impl, fs, other, proc, threads, shader>>

Size ==
    /\ last' = Call("size", NullStr, 0, impl, [NoRet EXCEPT !.count = size(impl)])
    /\ UNCHANGED <<impl, fs, other, proc, threads, shader>>

\* The process ends on a failed assertion or a crash.
Aborted == [proc EXCEPT !.aborted = TRUE]

\* What an out-of-bounds read of a vector<string> may hand back.
StrayStrings == SearchDirs \cup { <<"?">> }

\* operator[](i) for any i. A failed assertion aborts unless NDEBUG compiles
\* it out; an access past the end of m_explicit_paths is undefined: the
\* process crashes or some string is returned.
Subscript ==
    \E i \in 0..MaxAllPaths :
        /\ UNCHANGED <<impl, fs, other, threads, shader>>
        /\ IF ~(proc.ndebug \/ in_range(impl, i))
           THEN /\ proc' = Aborted
                /\ last' = Call("operator[]", NullStr, i, impl, NoRet)
           ELSE IF i < Len(impl.m_explicit_paths)
           THEN /\ proc' = proc
                /\ last' = Call("operator[]", NullStr, i, impl,
                                [NoRet EXCEPT !.str = subscript(impl, i)])
           ELSE \/ /\ proc' = Aborted
                   /\ last' = Call("operator[]", NullStr, i, impl, NoRet)
                \/ \E stray \in StrayStrings :
                     /\ proc' = proc
                     /\ last' = Call("operator[]", NullStr, i, impl,
                                     [NoRet EXCEPT !.str = stray])

\* remove(i) for any i. A failed assertion aborts unless NDEBUG compiles it
\* out; erasing past the end of m_explicit_paths is undefined: the process
\* crashes, nothing happens, or the last element goes.
RemoveAny ==
    \E i \in 0..MaxAllPaths :
        /\ UNCHANGED <<fs, other, threads, shader>>
        /\ IF ~(proc.ndebug \/ in_range(impl, i))
           THEN /\ proc' = Aborted
                /\ impl' = impl
                /\ last' = Call("remove", NullStr, i, impl, NoRet)
           ELSE IF i < Len(impl.m_explicit_paths)
           THEN /\ proc' = proc
                /\ impl' = remove(impl, i)
                /\ last' = Call("remove", impl.m_explicit_paths[i + 1], i, impl, NoRet)
           ELSE \/ /\ proc' = Aborted
                   /\ impl' = impl
                   /\ last' = Call("remove", NullStr, i, impl, NoRet)
                \/ /\ proc' = proc
                   /\ impl' \in { impl,
                                  [impl EXCEPT !.m_explicit_paths =
                                      SubSeq(@, 1, Len(@) - 1)] }
                   /\ last' = Call("remove", NullStr, i, impl, NoRet)

\* Separators handed to do_to_string.
Separators == { ":", ";" }

\* last.idx is 1 for reversed, 0 otherwise; last.arg is the separator.
DoToString ==
    \E separator \in Separators, reversed \in BOOLEAN :
        /\ last' = Call("to_string", <<separator>>, IF reversed THEN 1 ELSE 0, impl,
                        [NoRet EXCEPT !.str = do_to_string(impl, separator, reversed)])
        /\ UNCHANGED <<impl, fs, other, proc, threads, shader>>

Next ==
    \/ SetRootPath
    \/ Clear
    \/ Reset
    \/ PushBack
    \/ SplitAndPushBack
    \/ Remove
    \/ Exist
    \/ Qualify

Spec == Init /\ [][Next]_vars

\* The interface exercised on an empty disk, in a build with or without
\* NDEBUG: every mutator (with relative root paths, empty search paths and
\* arbitrary indices), the accessors and do_to_string.
InitAPI ==
    /\ fs = {}
    /\ Constructed
    /\ other = NoOther
    /\ proc \in [ndebug : BOOLEAN, aborted : {FALSE}]
    /\ threads = NoThreads
    /\ shader = NoShader

\* A process that has aborted takes no further step.
Running == ~proc.aborted

NextAPI ==
    \/ Running /\ SetRootPath
    \/ Running /\ SetRelativeRootPath
    \/ Running /\ Clear
    \/ Running /\ Reset
    \/ Running /\ PushBack
    \/ Running /\ PushBackEmpty
    \/ Running /\ SplitAndPushBack
    \/ Running /\ RemoveAny
    \/ Running /\ Empty
    \/ Running /\ Size
    \/ Running /\ Subscript
    \/ Running /\ DoToString

SpecAPI == InitAPI /\ [][NextAPI]_vars

\* ---------------------------------------------------------------- copies

\* Largest length of m_all_paths where two SearchPaths objects are followed.
MaxCopyPaths == 2

\* The second SearchPaths object: live once constructed; same is whether its
\* impl pointer is the very Impl of the first object (then obj is not read).
\* The Impl the second object points to:
OtherImpl == IF other.same THEN impl ELSE other.obj

\* A copy constructor that copies the impl pointer instead of the Impl.
copy_construct_shallow(src) == [live |-> TRUE, same |-> TRUE, obj |-> src]

\* SearchPaths::SearchPaths(const SearchPaths& other): impl(new Impl(*other.impl)),
\* seen from the object owning src: a new Impl equal to src, not src itself.
copy_construct(src) == [live |-> TRUE, same |-> FALSE, obj |-> src]

\* SearchPaths second(first).
CopyConstruct ==
    /\ ~other.live
    /\ other' = copy_construct(impl)
    /\ last' = Call("copy", NullStr, 0, impl, NoRet)
    /\ UNCHANGED <<impl, fs, proc, threads, shader>>

\* first = second: tmp(second); swap(tmp); tmp is destroyed with the old Impl.
AssignFromOther ==
    /\ other.live
    /\ LET tmp == copy_construct(OtherImpl)
       IN  /\ impl' = OtherImpl
           /\ other' = [live |-> TRUE, same |-> tmp.same, obj |-> OtherImpl]
    /\ last' = Call("assign_from_other", NullStr, 0, impl, NoRet)
    /\ UNCHANGED <<fs, proc, threads, shader>>

\* second = first.
AssignToOther ==
    /\ other.live
    /\ LET tmp == copy_construct(impl)
       IN  other' = [live |-> TRUE, same |-> tmp.same, obj |-> impl]
    /\ last' = Call("assign_to_other", NullStr, 0, impl, NoRet)
    /\ UNCHANGED <<impl, fs, proc, threads, shader>>

\* first.swap(second): the impl pointers are exchanged.
Swap ==
    /\ other.live
    /\ impl' = OtherImpl
    /\ other' = [other EXCEPT !.obj = impl]
    /\ last' = Call("swap", NullStr, 0, impl, NoRet)
    /\ UNCHANGED <<fs, proc, threads, shader>>

\* A mutator of the second object leaving new in the Impl it points to.
ApplyToOther(new) ==
    IF other.same
    THEN impl' = new /\ other' = other
    ELSE impl' = impl /\ other' = [other EXCEPT !.obj = new]

OtherSetRootPath ==
    \E path \in RootInputs :
        /\ other.live
        /\ ApplyToOther(set_root_path(OtherImpl, path))
        /\ last' = Call("other.set_root_path", path, 0, impl, NoRet)
        /\ UNCHANGED <<fs, proc, threads, shader>>

OtherClear ==
    /\ other.live
    /\ ApplyToOther(clear(OtherImpl))
    /\ last' = Call("other.clear", NullStr, 0, impl, NoRet)
    /\ UNCHANGED <<fs, proc, threads, shader>>

OtherReset ==
    /\ other.live
    /\ ApplyToOther(reset(OtherImpl))
    /\ last' = Call("other.reset", NullStr, 0, impl, NoRet)
    /\ UNCHANGED <<fs, proc, threads, shader>>

OtherPushBack ==
    \E path \in PathInputs :
        /\ other.live
        /\ Len(OtherImpl.m_all_paths) < MaxCopyPaths
        /\ ApplyToOther(push_back(OtherImpl, path))
        /\ last' = Call("other.push_back", path, 0, impl, NoRet)
        /\ UNCHANGED <<fs, proc, threads, shader>>

OtherRemove ==
    \E i \in 0..(size(OtherImpl) - 1) :
        /\ other.live
        /\ ApplyToOther(remove(OtherImpl, i))
        /\ last' = Call("other.remove", OtherImpl.m_explicit_paths[i + 1], i, impl, NoRet)
        /\ UNCHANGED <<fs, proc, threads, shader>>

\* Two SearchPaths objects on an empty disk: the first constructed by either
\* constructor, the second copied from it; both mutated, assigned and swapped.
InitCopy ==
    /\ fs = {}
    /\ Constructed
    /\ Len(impl.m_all_paths) <= MaxCopyPaths
    /\ other = NoOther
    /\ proc = [ndebug |-> FALSE, aborted |-> FALSE]
    /\ threads = NoThreads
    /\ shader = NoShader

NextCopy ==
    \/ SetRootPath
    \/ Clear
    \/ Reset
    \/ Len(impl.m_all_paths) < MaxCopyPaths /\ PushBack
    \/ Remove
    \/ CopyConstruct
    \/ AssignFromOther
    \/ AssignToOther
    \/ Swap
    \/ OtherSetRootPath
    \/ OtherClear
    \/ OtherReset
    \/ OtherPushBack
    \/ OtherRemove

SpecCopy == InitCopy /\ [][NextCopy]_vars

\* ---------------------------------------------------------------- queries in steps

\* Largest length of m_all_paths where the queries are followed step by step.
MaxQueryPaths == 2

\* The disks the stepwise queries run on: at most one file.
QueryFilesystems == { S \in Filesystems : Cardinality(S) <= 1 }

\* One iteration of the loop with search_path bound by reference to the entry
\* (bf::path& search_path): making it absolute writes into m_all_paths.
loop_body_in_place(s, i) ==
    [impl        |-> [s EXCEPT !.m_all_paths[i] = anchor(s, @)],
     search_path |-> anchor(s, s.m_all_paths[i])]

\* One iteration of the loop of exist and do_qualify on the entry the reverse
\* iterator designates: search_path is a local copy of the entry, made
\* absolute under the root path; the Impl is left as it was.
loop_body(s, i) ==
    [impl |-> s, search_path |-> anchor(s, s.m_all_paths[i])]

\* No thread is inside a query.
Quiescent == \A t \in Threads : threads[t].pc = "idle"

\* A hit of the walk: exist returns true, do_qualify stores its two results.
Hit(op, qualified_fp, search_path) ==
    IF op = "exist" THEN [NoRet EXCEPT !.found = TRUE]
    ELSE Qualified(make_preferred(qualified_fp), search_path)

\* exist / do_qualify entered: a relative filepath starts the loop at
\* rbegin(), an absolute one goes straight to the final statements.
BeginWalk(t) ==
    \E op \in {"exist", "qualify"}, filepath \in Targets :
        /\ threads[t].pc = "idle"
        /\ threads' = [threads EXCEPT ![t] =
              [IdleThread EXCEPT
                  !.pc  = IF ~is_absolute(filepath) THEN "loop" ELSE "fallback",
                  !.op  = op,
                  !.arg = filepath,
                  !.i   = IF ~is_absolute(filepath) THEN Len(impl.m_all_paths) ELSE 0]]
        /\ UNCHANGED <<impl, fs, last, other, proc, shader>>

\* The loop test and one iteration: at rend() the loop is left; otherwise the
\* entry is probed, a hit returns and a miss advances the iterator.
LoopStep(t) ==
    LET th == threads[t]
    IN  /\ th.pc = "loop"
        /\ IF th.i = 0
           THEN /\ threads' = [threads EXCEPT ![t].pc = "root"]
                /\ impl' = impl
           ELSE LET body         == loop_body(impl, th.i)
                    qualified_fp == path_append(body.search_path, th.arg)
                IN  /\ impl' = body.impl
                    /\ threads' = [threads EXCEPT ![t] =
                          IF bf_exists(qualified_fp)
                          THEN [th EXCEPT
                                   !.pc  = "done",
                                   !.ret = Hit(th.op, qualified_fp,
                                               body.impl.m_all_paths[th.i])]
                          ELSE [th EXCEPT !.i = th.i - 1]]
        /\ UNCHANGED <<fs, last, other, proc, shader>>

\* The lookup in the root path that follows the loop.
RootStep(t) ==
    LET th           == threads[t]
        qualified_fp == path_append(impl.m_root_path, th.arg)
    IN  /\ th.pc = "root"
        /\ threads' = [threads EXCEPT ![t] =
              IF has_root_path(impl) /\ bf_exists(qualified_fp)
              THEN [th EXCEPT !.pc = "done", !.ret = Hit(th.op, qualified_fp, NullStr)]
              ELSE [th EXCEPT !.pc = "fallback"]]
        /\ UNCHANGED <<impl, fs, last, other, proc, shader>>

\* The final statements: exist probes the filepath itself, do_qualify hands
\* the filepath back with a null search path.
FallbackStep(t) ==
    LET th == threads[t]
    IN  /\ th.pc = "fallback"
        /\ threads' = [threads EXCEPT ![t] =
              [th EXCEPT
                  !.pc  = "done",
                  !.ret = IF th.op = "exist"
                          THEN [NoRet EXCEPT !.found = bf_exists(th.arg)]
                          ELSE [NoRet EXCEPT !.qualified = th.arg]]]
        /\ UNCHANGED <<impl, fs, last, other, proc, shader>>

\* has_root_path(), size(), operator[](i) with i < size() and do_to_string():
\* each reads the Impl in one step.
Accessor(t) ==
    /\ threads[t].pc = "idle"
    /\ \/ threads' = [threads EXCEPT ![t] =
             [IdleThread EXCEPT !.pc = "done", !.op = "has_root_path",
                                !.ret = [NoRet EXCEPT !.found = has_root_path(impl)]]]
       \/ threads' = [threads EXCEPT ![t] =
             [IdleThread EXCEPT !.pc = "done", !.op = "size",
                                !.ret = [NoRet EXCEPT !.count = size(impl)]]]
       \/ \E i \in 0..(size(impl) - 1) :
             threads' = [threads EXCEPT ![t] =
                [IdleThread EXCEPT !.pc = "done", !.op = "operator[]", !.idx = i,
                                   !.ret = [NoRet EXCEPT !.str = subscript(impl, i)]]]
       \/ \E separator \in Separators, reversed \in BOOLEAN :
             threads' = [threads EXCEPT ![t] =
                [IdleThread EXCEPT
                    !.pc = "done", !.op = "to_string", !.arg = <<separator>>,
                    !.idx = IF reversed THEN 1 ELSE 0,
                    !.ret = [NoRet EXCEPT
                                !.str = do_to_string(impl, separator, reversed)]]]
    /\ UNCHANGED <<impl, fs, last, other, proc, shader>>

\* The query returns to its caller.
Return(t) ==
    /\ threads[t].pc = "done"
    /\ threads' = [threads EXCEPT ![t] = IdleThread]
    /\ UNCHANGED <<impl, fs, last, other, proc, shader>>

\* One resolver on a disk, mutated only while no query is running, and
\* queried by the threads concurrently, the queries interleaved step by step.
InitQueries ==
    /\ fs \in QueryFilesystems
    /\ Constructed
    /\ Len(impl.m_all_paths) <= MaxQueryPaths
    /\ other = NoOther
    /\ proc = [ndebug |-> FALSE, aborted |-> FALSE]
    /\ threads = NoThreads
    /\ shader = NoShader

NextQueries ==
    \/ Quiescent /\ SetRootPath
    \/ Quiescent /\ Len(impl.m_all_paths) < MaxQueryPaths /\ PushBack
    \/ Quiescent /\ Remove
    \/ \E t \in Threads : BeginWalk(t)
    \/ \E t \in Threads : LoopStep(t)
    \/ \E t \in Threads : RootStep(t)
    \/ \E t \in Threads : FallbackStep(t)
    \/ \E t \in Threads : Accessor(t)
    \/ \E t \in Threads : Return(t)

SpecQueries == InitQueries /\ [][NextQueries]_vars

\* ---------------------------------------------------------------- shader

\* DiagnosticSurfaceShader::ShadingModeValues.
ShadingModeValues ==
    << [m_key |-> "coverage",                m_value |-> "Coverage"],
       [m_key |-> "barycentric",             m_value |-> "Barycentric"],
       [m_key |-> "uv",                      m_value |-> "UV"],
       [m_key |-> "tangent",                 m_value |-> "Tangent"],
       [m_key |-> "bitangent",               m_value |-> "Bitangent"],
       [m_key |-> "geometric_normal",        m_value |-> "GeometricNormal"],
       [m_key |-> "shading_normal",          m_value |-> "ShadingNormal"],
       [m_key |-> "original_shading_normal", m_value |-> "OriginalShadingNormal"],
       [m_key |-> "sides",                   m_value |-> "Sides"],
       [m_key |-> "depth",                   m_value |-> "Depth"],
       [m_key |-> "wireframe",               m_value |-> "Wireframe"],
       [m_key |-> "ambient_occlusion",       m_value |-> "AmbientOcclusion"],
       [m_key |-> "assembly_instances",      m_value |-> "AssemblyInstances"],
       [m_key |-> "object_instances",        m_value |-> "ObjectInstances"],
       [m_key |-> "regions",                 m_value |-> "Regions"],
       [m_key |-> "triangles",               m_value |-> "Triangles"],
       [m_key |-> "materials",               m_value |-> "Materials"] >>

\* ShadingModeCount: the number of entries of ShadingModeValues.
ShadingModeCount == Len(ShadingModeValues)

\* foundation::lookup_kvpair_array(): the first of the first count entries
\* whose key is the given one, from entry k on; the empty set (a null
\* pointer) if there is none.
RECURSIVE lookup_from(_, _, _, _)
lookup_from(array, count, key, k) ==
    IF k > count THEN {}
    ELSE IF array[k].m_key = key THEN {array[k]}
    ELSE lookup_from(array, count, key, k + 1)

lookup_kvpair_array(array, count, key) == lookup_from(array, count, key, 1)

\* ParamArray::get_required / get_optional: the parameter's value, or the
\* default value when the parameter is absent.
get_param(params, name, default_value) ==
    IF params[name] = {} THEN default_value ELSE CHOOSE v \in params[name] : TRUE

\* extract_parameters() without its else branch: m_shading_mode is left
\* unassigned when the mode string is not in the table.
extract_parameters_no_default(sh) ==
    LET mode_string == get_param(sh.m_params, "mode", "coverage")
        mode_pair   == lookup_kvpair_array(ShadingModeValues, ShadingModeCount, mode_string)
    IN  [sh EXCEPT !.m_shading_mode = { pair.m_value : pair \in mode_pair }]

\* DiagnosticSurfaceShader::extract_parameters().
extract_parameters(sh) ==
    LET mode_string == get_param(sh.m_params, "mode", "coverage")
        mode_pair   == lookup_kvpair_array(ShadingModeValues, ShadingModeCount, mode_string)
        mode        == IF mode_pair # {}
                       THEN (CHOOSE pair \in mode_pair : TRUE).m_value
                       ELSE "Coverage"
    IN  IF mode = "AmbientOcclusion"
        THEN [sh EXCEPT
                 !.m_shading_mode    = {mode},
                 !.m_ao_max_distance = {get_param(sh.m_params, "max_distance", 1)},
                 !.m_ao_samples      = {get_param(sh.m_params, "samples", 16)}]
        ELSE [sh EXCEPT !.m_shading_mode = {mode}]

\* DiagnosticSurfaceShader::DiagnosticSurfaceShader(name, params).
DiagnosticSurfaceShader(params) ==
    extract_parameters([NoShader EXCEPT !.constructed = TRUE, !.m_params = params])

\* DiagnosticSurfaceShader::evaluate(): the case of the switch taken for
\* m_shading_mode and the colour written to shading_result. The colour
\* functions are named, not computed.
evaluate(sh, shading_point) ==
    LET Result(branch, color) == [branch |-> branch, color |-> color]
        m == sh.m_shading_mode
    IN  CASE m = {"Coverage"}    -> Result("Coverage", "Color3f(1)")
          [] m = {"Barycentric"} -> Result("Barycentric", "vector2_to_color(bary)")
          [] m = {"UV"}          -> Result("UV", "vector2_to_color(uv)")
          [] m = {"Tangent"}     -> Result("Tangent", "vector3_to_color(dpdu)")
          [] m = {"Bitangent"}   -> Result("Bitangent", "vector3_to_color(dpdv)")
          [] m = {"GeometricNormal"} ->
                Result("GeometricNormal", "vector3_to_color(geometric_normal)")
          [] m = {"ShadingNormal"} ->
                Result("ShadingNormal", "vector3_to_color(shading_normal)")
          [] m = {"OriginalShadingNormal"} ->
                Result("OriginalShadingNormal",
                       "vector3_to_color(original_shading_normal)")
          [] m = {"Sides"} ->
                Result("Sides", IF shading_point.side = "FrontSide"
                                THEN "Color3f(0,0,1)" ELSE "Color3f(1,0,0)")
          [] m = {"Depth"}       -> Result("Depth", "Color3f(distance)")
          [] m = {"Wireframe"} ->
                Result("Wireframe", IF shading_point.on_wire
                                    THEN "Color4f(1)" ELSE "Color4f(0,0,0.8,0.5)")
          [] m = {"AmbientOcclusion"} ->
                Result("AmbientOcclusion", "Color3f(accessibility)")
          [] m = {"AssemblyInstances"} ->
                Result("AssemblyInstances", "integer_to_color(assembly_instance)")
          [] m = {"ObjectInstances"} ->
                Result("ObjectInstances", "integer_to_color(object_instance)")
          [] m = {"Regions"}     -> Result("Regions", "integer_to_color(mix32)")
          [] m = {"Triangles"}   -> Result("Triangles", "integer_to_color(mix32)")
          [] m = {"Materials"} ->
                Result("Materials", IF shading_point.material
                                    THEN "integer_to_color(material)" ELSE "solid_pink")
          [] OTHER               -> Result("default", "clear")

\* The "mode" strings given: every key of the table and a few that are not.
ModeInputs ==
    { ShadingModeValues[k].m_key : k \in 1..Len(ShadingModeValues) }
    \cup { "", "Coverage", "normals" }

\* The parameters a shader is constructed with: "mode" absent or given, and
\* the two parameters of the "ambient_occlusion" child absent or given.
ShaderParams ==
    [mode         : {{}} \cup { {key} : key \in ModeInputs },
     max_distance : { {}, {2} },
     samples      : { {}, {4} }]

\* The shading points evaluate is called with: the side hit, whether the
\* point has a material, whether it lies within a wire's thickness of an edge.
ShadingPoints ==
    [side : {"FrontSide", "BackSide"}, material : BOOLEAN, on_wire : BOOLEAN]

ConstructShader ==
    \E params \in ShaderParams :
        /\ ~shader.constructed
        /\ shader' = DiagnosticSurfaceShader(params)
        /\ UNCHANGED <<impl, fs, last, other, proc, threads>>

\* evaluate(): in the default case assert(false) ends a build that keeps
\* assertions, and shading_result is cleared in a build that does not.
Evaluate ==
    \E shading_point \in ShadingPoints :
        LET result == evaluate(shader, shading_point)
        IN  /\ shader.constructed
            /\ IF result.branch = "default" /\ ~proc.ndebug
               THEN /\ proc' = Aborted
                    /\ shader' = shader
               ELSE /\ proc' = proc
                    /\ shader' = [shader EXCEPT !.result = result]
            /\ UNCHANGED <<impl, fs, last, other, threads>>

\* release(): delete this.
Release ==
    /\ shader.constructed
    /\ shader' = NoShader
    /\ UNCHANGED <<impl, fs, last, other, proc, threads>>

\* A diagnostic surface shader constructed from its parameters and used to
\* shade points, in a build with or without NDEBUG.
InitShader ==
    /\ fs = {}
    /\ impl = SearchPathsDefault
    /\ last = Call("SearchPaths", NullStr, 0, SearchPathsDefault, NoRet)
    /\ other = NoOther
    /\ proc \in [ndebug : BOOLEAN, aborted : {FALSE}]
    /\ threads = NoThreads
    /\ shader = NoShader

NextShader ==
    \/ Running /\ ConstructShader
    \/ Running /\ Evaluate
    \/ Running /\ Release

SpecShader == InitShader /\ [][NextShader]_vars

\* ---------------------------------------------------------------- claims

Range(seq) == { seq[k] : k \in 1..Len(seq) }

\* The directory probed for a stored search path c in the current state.
AnchorOf(c) ==
    IF impl.m_root_path # <<>> /\ ~is_absolute(c)
    THEN path_append(impl.m_root_path, c)
    ELSE c

\* The entries of m_all_paths under which the relative target t exists.
HitIndices(t) ==
    { i \in 1..Len(impl.m_all_paths) :
        path_append(AnchorOf(impl.m_all_paths[i]), t) \in fs }

RootHit(t) ==
    impl.m_root_path # <<>> /\ path_append(impl.m_root_path, t) \in fs

Max(S) == CHOOSE x \in S : \A y \in S : y <= x

\* C1: in every reachable state m_all_paths is exactly the environment paths
\* followed by the explicit paths, element for element and in order.
C1_CombinedIsEnvironmentThenExplicit ==
    impl.m_all_paths = impl.m_environment_paths \o impl.m_explicit_paths

\* C2: push_back(p) immediately followed by remove(size() - 1) restores size()
\* and m_all_paths to what they were before the push_back.
C2_PushBackThenRemoveRestores ==
    last.op = "push_back" =>
        LET undone == remove(impl, size(impl) - 1)
        IN  /\ size(undone) = size(last.pre)
            /\ undone.m_all_paths = last.pre.m_all_paths

\* C3: after remove(i) has removed a path p that occurs nowhere else in the
\* environment or explicit paths, no query consults p: do_qualify never names p
\* as the originating search path, and a relative target that exists under p
\* but under no remaining search path is not found by the search-path walk.
C3_RemovedPathNotConsulted ==
    (/\ last.op = "remove"
     /\ last.arg \notin Range(impl.m_environment_paths)
     /\ last.arg \notin Range(impl.m_explicit_paths))
    => \A t \in RelTargets :
         /\ do_qualify(impl, t).search_path # last.arg
         /\ (\A c \in Range(impl.m_environment_paths) \cup Range(impl.m_explicit_paths) :
                path_append(AnchorOf(c), t) \notin fs)
            => ~exist_loop(impl, t, Len(impl.m_all_paths))

Min(S) == CHOOSE x \in S : \A y \in S : x <= y

\* The locations probed for the relative target t, in the order claimed:
\* m_all_paths from last to first, then the root path if set, then t itself.
Candidates(t) ==
    LET n == Len(impl.m_all_paths)
    IN  [k \in 1..n |-> path_append(AnchorOf(impl.m_all_paths[n - k + 1]), t)]
        \o (IF impl.m_root_path # <<>>
            THEN <<path_append(impl.m_root_path, t)>> ELSE <<>>)
        \o <<t>>

RECURSIVE IsSubsequence(_, _)
IsSubsequence(a, b) ==
    IF a = <<>> THEN TRUE
    ELSE IF b = <<>> THEN FALSE
    ELSE IF Head(a) = Head(b) THEN IsSubsequence(Tail(a), Tail(b))
    ELSE IsSubsequence(a, Tail(b))

\* C4: for a relative target, do_qualify returns the first existing location
\* of Candidates (reverse m_all_paths, then root, then the plain target); and
\* in m_all_paths the environment paths come first and the explicit paths
\* follow in append order, so the reverse walk tries every explicit path
\* before every environment path and later appends before earlier ones.
C4_FirstCandidateWins ==
    /\ SubSeq(impl.m_all_paths, 1, Len(impl.m_environment_paths))
          = impl.m_environment_paths
    /\ IsSubsequence(impl.m_explicit_paths,
                     SubSeq(impl.m_all_paths, Len(impl.m_environment_paths) + 1,
                            Len(impl.m_all_paths)))
    /\ (last.op = "qualify" /\ is_relative(last.arg)) =>
          LET cands == Candidates(last.arg)
              hits  == { k \in 1..Len(cands) : cands[k] \in fs }
          IN  /\ hits # {} => last.ret.qualified = cands[Min(hits)]
              /\ hits = {} => last.ret.qualified = last.arg

\* C4 witness: a qualify call on a resolver with one environment path and two
\* explicit paths, where the target exists under an environment path and
\* under an explicit path, and the explicit one is returned.
C4_Witness ==
    /\ last.op = "qualify" /\ is_relative(last.arg)
    /\ Len(impl.m_environment_paths) = 1 /\ size(impl) = 2
    /\ \E i, j \in HitIndices(last.arg) :
          /\ i <= Len(impl.m_environment_paths)
          /\ j > Len(impl.m_environment_paths)
          /\ impl.m_all_paths[i] # impl.m_all_paths[j]
          /\ last.ret.search_path = impl.m_all_paths[j]

\* C5: for a relative target t, exist(t) is true iff t exists under the
\* anchored form of some entry of m_all_paths, or under the root path when one
\* is set, or as t itself.
C5_ExistIffSomeLocationExists ==
    (last.op = "exist" /\ is_relative(last.arg)) =>
        last.ret.found =
            \/ \E c \in Range(impl.m_all_paths) :
                  path_append(AnchorOf(c), last.arg) \in fs
            \/ impl.m_root_path # <<>>
                  /\ path_append(impl.m_root_path, last.arg) \in fs
            \/ last.arg \in fs

\* C5 witness: with a root path set, exist finds the target under an
\* absolute entry, which is probed as stored (not under the root path).
C5_Witness ==
    /\ last.op = "exist" /\ is_relative(last.arg) /\ last.ret.found
    /\ impl.m_root_path # <<>>
    /\ \E i \in HitIndices(last.arg) : is_absolute(impl.m_all_paths[i])
    /\ Cardinality(fs) = 1

\* C6: when do_qualify hits on an entry c of m_all_paths it returns the joined
\* path anchor(c)/t with the stored string c as search path; when only the
\* root path candidate exists it returns root/t with a null search path.
C6_QualifyReturnsRawSearchPath ==
    (last.op = "qualify" /\ is_relative(last.arg)) =>
        /\ HitIndices(last.arg) # {} =>
              \E i \in HitIndices(last.arg) :
                 /\ last.ret.search_path = impl.m_all_paths[i]
                 /\ last.ret.qualified =
                       path_append(AnchorOf(impl.m_all_paths[i]), last.arg)
        /\ (HitIndices(last.arg) = {} /\ RootHit(last.arg)) =>
              /\ last.ret.qualified = path_append(impl.m_root_path, last.arg)
              /\ last.ret.search_path = NullStr

\* C6 witness: a hit on a relative entry while a root path is set, so the
\* stored string differs from the directory that was probed.
C6_Witness ==
    /\ last.op = "qualify" /\ is_relative(last.arg)
    /\ impl.m_root_path # <<>>
    /\ last.ret.search_path # NullStr
    /\ is_relative(last.ret.search_path)
    /\ last.ret.search_path # <<>>

\* C7: do_qualify returns the target unchanged with a null search path when
\* the target is absolute, or is relative and exists under no m_all_paths
\* candidate and not under the root path.
C7_QualifyDegradesToInput ==
    (/\ last.op = "qualify"
     /\ \/ is_absolute(last.arg)
        \/ HitIndices(last.arg) = {} /\ ~RootHit(last.arg))
    => /\ last.ret.qualified = last.arg
       /\ last.ret.search_path = NullStr

\* C7 witness: a relative target that misses every entry and the root path of
\* a resolver that has both, on a disk that is not empty.
C7_Witness ==
    /\ last.op = "qualify" /\ is_relative(last.arg)
    /\ impl.m_all_paths # <<>> /\ impl.m_root_path # <<>>
    /\ HitIndices(last.arg) = {} /\ ~RootHit(last.arg)
    /\ fs # {}
    /\ last.ret.qualified = last.arg

\* C8: for an absolute target, exist returns whether the target itself is on
\* disk, whatever the root path and the three path vectors hold.
C8_AbsoluteExistIgnoresResolver ==
    (last.op = "exist" /\ is_absolute(last.arg)) =>
        last.ret.found = (last.arg \in fs)

\* C8 witness: an absolute target that is not on disk although a file of
\* that name lies under a registered search path; exist returns false.
C8_Witness ==
    /\ last.op = "exist" /\ is_absolute(last.arg)
    /\ last.arg \notin fs
    /\ \E c \in Range(impl.m_all_paths) : path_append(c, last.arg) \in fs
    /\ ~last.ret.found

\* C9: after reset(), size() is 0 and m_all_paths equals m_environment_paths,
\* and a second reset() changes nothing.
C9_ResetRestoresEnvironmentOnly ==
    last.op = "reset" =>
        /\ size(impl) = 0
        /\ impl.m_all_paths = impl.m_environment_paths
        /\ reset(impl) = impl

\* C9 witness: reset() called on a resolver from which an explicit path had
\* been removed, with environment paths present.
C9_Witness ==
    /\ last.op = "reset"
    /\ last.pre.m_environment_paths # <<>>
    /\ last.pre.m_explicit_paths # <<>>
    /\ last.pre.m_all_paths
          # last.pre.m_environment_paths \o last.pre.m_explicit_paths

\* C10: after clear(), the root path and the three path vectors are empty, so
\* has_root_path() is false and size() is 0.
C10_ClearEmptiesEverything ==
    last.op = "clear" =>
        /\ impl.m_root_path = <<>>
        /\ impl.m_environment_paths = <<>>
        /\ impl.m_explicit_paths = <<>>
        /\ impl.m_all_paths = <<>>
        /\ ~has_root_path(impl)
        /\ size(impl) = 0

\* C10 witness: clear() called on a resolver with a root path, environment
\* paths and explicit paths.
C10_Witness ==
    /\ last.op = "clear"
    /\ last.pre.m_root_path # <<>>
    /\ last.pre.m_environment_paths # <<>>
    /\ last.pre.m_explicit_paths # <<>>

\* C11: reset, push_back, split_and_push_back and remove leave
\* m_environment_paths and m_root_path as they were, and set_root_path leaves
\* m_environment_paths as it was.
C11_EnvironmentAndRootFrame ==
    /\ last.op \in {"reset", "push_back", "split_and_push_back", "remove"} =>
          /\ impl.m_environment_paths = last.pre.m_environment_paths
          /\ impl.m_root_path = last.pre.m_root_path
    /\ last.op = "set_root_path" =>
          impl.m_environment_paths = last.pre.m_environment_paths

\* C11 witness: reset() called on a resolver with a root path, environment
\* paths and explicit paths.
C11_Witness ==
    /\ last.op = "reset"
    /\ last.pre.m_root_path # <<>>
    /\ last.pre.m_environment_paths # <<>>
    /\ last.pre.m_explicit_paths # <<>>
    /\ impl.m_environment_paths # <<>>

\* The tokens of an environment value that are absolute paths, in order.
AbsoluteTokens(value, separator) == SelectSeq(split(value, separator), is_absolute)

\* C12: right after construction m_explicit_paths is empty; with the variable
\* unset the other two vectors are empty too, otherwise both equal the
\* absolute tokens of the value in their original order. In every reachable
\* state every element of m_environment_paths is absolute.
C12_EnvironmentSeededConstruction ==
    /\ last.op = "SearchPaths" =>
          /\ impl.m_explicit_paths = <<>>
          /\ IF last.arg = NullStr
             THEN impl.m_environment_paths = <<>> /\ impl.m_all_paths = <<>>
             ELSE LET kept == AbsoluteTokens(last.arg, environment_path_separator)
                  IN  /\ impl.m_environment_paths = kept
                      /\ impl.m_all_paths = kept
    /\ \A k \in 1..Len(impl.m_environment_paths) :
          is_absolute(impl.m_environment_paths[k])

\* C12 witness: construction from a value with two absolute tokens around a
\* relative one; the two absolute ones are kept in order.
C12_Witness ==
    /\ last.op = "SearchPaths" /\ last.arg # NullStr
    /\ Len(impl.m_environment_paths) = 2
    /\ impl.m_environment_paths[1] # impl.m_environment_paths[2]
    /\ Len(split(last.arg, environment_path_separator)) = 3

RECURSIVE AppendEach(_, _)
AppendEach(s, tokens) ==
    IF tokens = <<>> THEN s
    ELSE AppendEach(push_back(s, Head(tokens)), Tail(tokens))

\* C13: split_and_push_back appends one explicit entry per token, in order,
\* empty and relative tokens included, which is the effect of push_back on
\* each token in turn ("a:b::c" adds "a", "b", "", "c"); the constructor fed
\* the same string keeps only its absolute tokens.
C13_SplitAndPushBackKeepsEveryToken ==
    /\ last.op = "split_and_push_back" =>
          LET tokens == split(last.arg, environment_path_separator)
          IN  /\ impl.m_explicit_paths = last.pre.m_explicit_paths \o tokens
              /\ impl.m_all_paths = last.pre.m_all_paths \o tokens
              /\ impl = AppendEach(last.pre, tokens)
              /\ SearchPathsEnv(last.arg, environment_path_separator).m_environment_paths
                    = AbsoluteTokens(last.arg, environment_path_separator)
    /\ split_and_push_back(SearchPathsDefault,
                           <<"a", ":", "b", ":", ":", "c">>, ":").m_explicit_paths
          = << <<"a">>, <<"b">>, <<>>, <<"c">> >>

\* C13 witness: a split_and_push_back call that appended an empty token and
\* a relative token, both of which the constructor drops.
C13_Witness ==
    /\ last.op = "split_and_push_back"
    /\ size(impl) = size(last.pre) + 2
    /\ impl.m_explicit_paths[size(impl) - 1] = <<>>
    /\ is_relative(impl.m_explicit_paths[size(impl)])
    /\ impl.m_explicit_paths[size(impl)] # <<>>
    /\ SearchPathsEnv(last.arg, environment_path_separator).m_environment_paths = <<>>

\* C14: push_back(p) makes p the last element of m_explicit_paths and of
\* m_all_paths, grows size() by one and keeps the earlier entries of both in
\* order, for every p offered: absolute, relative, empty, not on disk or
\* already registered.
C14_PushBackAppendsToBoth ==
    last.op = "push_back" =>
        /\ impl.m_explicit_paths = Append(last.pre.m_explicit_paths, last.arg)
        /\ impl.m_all_paths = Append(last.pre.m_all_paths, last.arg)
        /\ size(impl) = size(last.pre) + 1

\* C14 witness: the empty path pushed a second time.
C14_Witness ==
    /\ last.op = "push_back"
    /\ last.arg = <<>>
    /\ last.arg \in Range(last.pre.m_explicit_paths)
    /\ size(impl) = size(last.pre) + 1

RECURSIVE Join(_, _)
Join(list, separator) ==
    IF list = <<>> THEN <<>>
    ELSE IF Len(list) = 1 THEN list[1]
    ELSE list[1] \o <<separator>> \o Join(Tail(list), separator)

\* The entries of m_all_paths as the claim has them emitted: a relative entry
\* under the root path if one is set and dropped otherwise, an absolute entry
\* unchanged.
RECURSIVE ResolvedEntries(_)
ResolvedEntries(entries) ==
    IF entries = <<>> THEN <<>>
    ELSE LET c == Head(entries)
         IN  (IF is_absolute(c) THEN <<c>>
              ELSE IF impl.m_root_path # <<>>
                   THEN <<path_append(impl.m_root_path, c)>>
                   ELSE <<>>)
             \o ResolvedEntries(Tail(entries))

\* The list serialize(sep, false) is claimed to emit: the root path itself
\* if set, then the resolved entries.
EffectivePaths ==
    (IF impl.m_root_path # <<>> THEN <<impl.m_root_path>> ELSE <<>>)
    \o ResolvedEntries(impl.m_all_paths)

\* C15: do_to_string(sep, false) is EffectivePaths joined by sep, and
\* splitting it on sep gives EffectivePaths back.
C15_ToStringEmitsEffectivePaths ==
    (last.op = "to_string" /\ last.idx = 0) =>
        /\ last.ret.str = Join(EffectivePaths, last.arg[1])
        /\ EffectivePaths # <<>> =>
              split(last.ret.str, last.arg[1]) = EffectivePaths

\* C16: the element list of do_to_string(sep, true) is the reverse of the
\* element list of do_to_string(sep, false).
C16_ReversedIsReverseOfForward ==
    (last.op = "to_string" /\ last.idx = 1) =>
        split(last.ret.str, last.arg[1])
            = reverse(split(do_to_string(impl, last.arg[1], FALSE), last.arg[1]))

\* C16 witness: a reversed serialization of a resolver with a root path, a
\* relative and an absolute search path: three elements, the root path last.
C16_Witness ==
    /\ last.op = "to_string" /\ last.idx = 1
    /\ impl.m_root_path # <<>>
    /\ \E c \in Range(impl.m_all_paths) : is_absolute(c)
    /\ \E c \in Range(impl.m_all_paths) : is_relative(c)
    /\ Len(split(last.ret.str, last.arg[1])) >= 3
    /\ last.ret.str # do_to_string(impl, last.arg[1], FALSE)

\* C18: size() is the number of explicit paths and operator[](i) is the i-th
\* explicit path, not the i-th entry of m_all_paths; right after construction
\* size() is 0 and empty() is true whatever the environment paths are.
C18_AccessorsExposeExplicitPathsOnly ==
    /\ last.op = "size" => last.ret.count = Len(impl.m_explicit_paths)
    /\ last.op = "empty" => last.ret.found = (impl.m_explicit_paths = <<>>)
    /\ (last.op = "operator[]" /\ last.idx < Len(impl.m_explicit_paths)) =>
          last.ret.str = impl.m_explicit_paths[last.idx + 1]
    /\ last.op = "SearchPaths" => size(impl) = 0 /\ empty(impl)

\* C18 witness: operator[] on a resolver with environment paths and a removed
\* explicit path returns an explicit path where m_all_paths holds another.
C18_Witness ==
    /\ last.op = "operator[]" /\ last.idx < Len(impl.m_explicit_paths)
    /\ impl.m_environment_paths # <<>>
    /\ Len(impl.m_all_paths) > Len(impl.m_environment_paths) + size(impl)
    /\ last.ret.str # impl.m_all_paths[last.idx + 1]

\* C19: set_root_path(p) stores p (with preferred separators) over any root
\* path stored before, leaves the three vectors alone, and has_root_path() is
\* then true iff p is not empty.
C19_SetRootPathReplaces ==
    last.op = "set_root_path" =>
        /\ impl.m_root_path = make_preferred(last.arg)
        /\ impl.m_environment_paths = last.pre.m_environment_paths
        /\ impl.m_explicit_paths = last.pre.m_explicit_paths
        /\ impl.m_all_paths = last.pre.m_all_paths
        /\ has_root_path(impl) = (last.arg # <<>>)

\* C19 witness: a root path replaced by a different, non-empty root path.
C19_Witness ==
    /\ last.op = "set_root_path"
    /\ last.pre.m_root_path # <<>>
    /\ last.arg # <<>>
    /\ last.arg # last.pre.m_root_path
    /\ last.pre.m_all_paths # <<>>

\* A remove or operator[] call ended the process without removing or
\* returning anything.
FailedFast ==
    /\ proc.aborted
    /\ impl = last.pre
    /\ last.ret = NoRet

\* C20: remove(i) and operator[](i) with i >= size() fail fast instead of
\* removing or returning anything; with i < size() they do not fail.
C20_OutOfRangeFailsFast ==
    last.op \in {"remove", "operator[]"} =>
        IF last.idx >= size(last.pre) THEN FailedFast ELSE ~proc.aborted

\* C20 as amended: the same in a build that keeps assertions (NDEBUG not
\* defined); with i < size() the calls do not fail in any build.
C20_OutOfRangeFailsFastWithAssertions ==
    last.op \in {"remove", "operator[]"} =>
        IF last.idx >= size(last.pre)
        THEN ~proc.ndebug => FailedFast
        ELSE ~proc.aborted

\* C20 witness: remove(size()) on a resolver with explicit paths, in a build
\* with assertions, aborted the process.
C20_Witness ==
    /\ last.op = "remove"
    /\ ~proc.ndebug
    /\ size(last.pre) > 0
    /\ last.idx = size(last.pre)
    /\ FailedFast

\* The calls that mutate the first object only, and the second only.
FirstMutators == {"set_root_path", "clear", "reset", "push_back", "remove"}

SecondMutators ==
    {"other.set_root_path", "other.clear", "other.reset", "other.push_back",
     "other.remove"}

\* C17: after copy construction or assignment both objects hold equal root
\* path and vectors; afterwards a mutation of either object leaves the other
\* object's state as it was, and an assignment leaves its source as it was.
C17_CopiesAreEqualAndIndependent ==
    /\ [](last.op \in {"copy", "assign_from_other", "assign_to_other"} =>
             OtherImpl = impl)
    /\ [][/\ (other.live /\ last'.op \in FirstMutators) => OtherImpl' = OtherImpl
          /\ last'.op \in SecondMutators => impl' = impl
          /\ last'.op = "assign_from_other" => OtherImpl' = OtherImpl
          /\ last'.op = "assign_to_other" => impl' = impl]_vars

\* C17 witness: the first object was copied, and a push_back on it since has
\* left the copy with the paths it was copied with.
C17_Witness ==
    /\ other.live
    /\ last.op = "push_back"
    /\ OtherImpl.m_all_paths # <<>>
    /\ OtherImpl = last.pre
    /\ impl.m_all_paths = Append(OtherImpl.m_all_paths, last.arg)

\* C21: exist and qualify agree for every resolver state, disk and target:
\* exist(t) is true iff the path qualify(t) returns exists on disk; whenever
\* qualify returns a non-null originating search path, exist(t) is true.
C21_ExistAgreesWithQualify ==
    /\ last.op = "qualify" =>
          /\ exist(last.pre, last.arg) <=> bf_exists(last.ret.qualified)
          /\ last.ret.search_path # NullStr => exist(last.pre, last.arg)
    /\ last.op = "exist" =>
          (last.ret.found <=> bf_exists(do_qualify(last.pre, last.arg).qualified))

\* C21 witness: on a resolver with a root path and search paths that all
\* miss, qualify returned the target under the root path, which is on disk.
C21_Witness ==
    /\ last.op = "qualify"
    /\ last.pre.m_all_paths # <<>>
    /\ has_root_path(last.pre)
    /\ last.ret.search_path = NullStr
    /\ last.ret.qualified = path_append(last.pre.m_root_path, last.arg)
    /\ last.ret.qualified # last.arg
    /\ bf_exists(last.ret.qualified)

\* What the query held by thread record th returns when it runs alone, from
\* start to end, on resolver s.
Sequential(s, th) ==
    CASE th.op = "exist"         -> [NoRet EXCEPT !.found = exist(s, th.arg)]
      [] th.op = "qualify"       -> do_qualify(s, th.arg)
      [] th.op = "has_root_path" -> [NoRet EXCEPT !.found = has_root_path(s)]
      [] th.op = "size"          -> [NoRet EXCEPT !.count = size(s)]
      [] th.op = "operator[]"    -> [NoRet EXCEPT !.str = subscript(s, th.idx)]
      [] th.op = "to_string"     ->
            [NoRet EXCEPT !.str = do_to_string(s, th.arg[1], th.idx = 1)]

\* C22: exist, qualify, to_string, has_root_path, size and operator[] are
\* read-only: no step of a query changes the root path or any of the three
\* vectors, so queries interleaved step by step, with no mutation in flight,
\* each return what they return when run alone.
C22_QueriesAreReadOnly ==
    /\ [](\A t \in Threads :
             threads[t].pc = "done" => threads[t].ret = Sequential(impl, threads[t]))
    /\ [][threads' # threads => impl' = impl]_vars

\* C22 witness: on a resolver with a root path and a relative search path,
\* one thread is about to return from a qualify that hit a search path while
\* another is in the middle of its own walk.
C22_Witness ==
    \E t, u \in Threads :
        /\ t # u
        /\ has_root_path(impl)
        /\ \E k \in 1..Len(impl.m_all_paths) : is_relative(impl.m_all_paths[k])
        /\ threads[t].pc = "done"
        /\ threads[t].op = "qualify"
        /\ threads[t].ret.search_path # NullStr
        /\ threads[u].pc = "loop"
        /\ threads[u].i > 0
        /\ threads[u].i < Len(impl.m_all_paths)

\* The modes listed in ShadingModeValues.
ListedModes == { ShadingModeValues[k].m_value : k \in 1..Len(ShadingModeValues) }

\* The key of ShadingModeValues the shader was constructed with, if any.
RecognisedMode ==
    { pair \in Range(ShadingModeValues) : shader.m_params.mode = {pair.m_key} }

\* C23: the shading mode of a constructed diagnostic surface shader is one of
\* the 17 modes listed in ShadingModeValues: a recognised "mode" string
\* selects its table entry, an unrecognised one selects Coverage; evaluate
\* takes the case of that mode and never its default case.
C23_ShadingModeIsListed ==
    /\ Cardinality(ListedModes) = 17
    /\ shader.constructed =>
          /\ \E mode \in ListedModes : shader.m_shading_mode = {mode}
          /\ \A pair \in RecognisedMode : shader.m_shading_mode = {pair.m_value}
          /\ (shader.m_params.mode # {} /\ RecognisedMode = {}) =>
                shader.m_shading_mode = {"Coverage"}
          /\ shader.result.branch # "none" =>
                shader.m_shading_mode = {shader.result.branch}
    /\ shader.result.branch # "default"
    /\ ~proc.aborted

\* C23 witness: a shader constructed with a "mode" string that is not in the
\* table has shaded a point, in the Coverage case.
C23_Witness ==
    /\ shader.constructed
    /\ shader.m_params.mode = {"normals"}
    /\ shader.result = [branch |-> "Coverage", color |-> "Color3f(1)"]

================================================================
